---- MODULE Spec2Model ----
(***************************************************************************)
(* ToonMotion: the grid-to-frames extraction pipeline of                   *)
(* src/utils/imageUtils.ts (second, fixed-grid version, lines 419-776).    *)
(*                                                                         *)
(* A raster is a record [width, height, data]; data is the flat ImageData  *)
(* buffer, one <<r, g, b, a>> tuple per pixel, pixel (x, y) at index       *)
(* y * width + x.  One call of sliceSpriteSheet is followed from the       *)
(* construction of its promise to its settlement; the loops of             *)
(* performFixedGridSlicing and alignAndMaximizeFrames advance one          *)
(* iteration per step.                                                     *)
(***************************************************************************)
EXTENDS Integers, Sequences, FiniteSets, TLC

\* ------------------------------------------------------------------ bounds
MaxRows == 2
MaxCols == 2
MaxCells == 4
\* cell pitch of the generated sheets, in pixels
Pitch == 12
\* width of the background ring around the generated grid
Margin == 1
\* how many getContext('2d') calls on a fresh canvas may return null
MaxCtxFailures == 1
\* the significand of a number, in bits
SigBits == 8
\* the grid areas of the rectangle specification: offsets, extents, rows and columns
MaxOffset == 1
MaxExtent == 7
MaxParts == 3
\* how many asynchronous tasks (file reads with the analysis that follows,
\* generations) the app starts
MaxTasks == 4

\* ------------------------------------------------------- program constants
whiteThreshold == 240
visibleAlpha == 20
padding == 2
safetyShave == 4
threshold == 230

NULL == [null |-> TRUE]

\* ------------------------------------------------------------------ pixels
Transparent == <<0, 0, 0, 0>>
White == <<255, 255, 255, 255>>
Black == <<0, 0, 0, 255>>
\* alpha exactly at / just above the visibility threshold
Faint == <<0, 0, 0, 20>>
Dim == <<0, 0, 0, 21>>
\* all channels exactly at the whiteness threshold
Pale == <<240, 240, 240, 255>>
\* one channel just below the whiteness threshold, all above the key-out one
Cream == <<239, 255, 255, 255>>
\* one channel exactly at the key-out threshold
Tint == <<230, 250, 250, 255>>

Max(a, b) == IF a > b THEN a ELSE b
\* Math.ceil(n / d) for integers n >= 0, d >= 1
\* faulty variant: the quotient is rounded down
CeilFloor(n, d) == n \div d

Ceil(n, d) == (n + d - 1) \div d

PixelAt(canvas, x, y) == canvas.data[y * canvas.width + x]

\* document.createElement('canvas') with width/height set: transparent black
NewCanvas(w, h) ==
  [width |-> w, height |-> h, data |-> [i \in 0..(w * h - 1) |-> Transparent]]

\* --------------------------------------------------------- getContentBounds
\* faulty variant: a pixel whose alpha equals the threshold counts as visible
IsContentInclusive(px) ==
  /\ px[4] >= visibleAlpha
  /\ (px[1] < whiteThreshold \/ px[2] < whiteThreshold \/ px[3] < whiteThreshold)

\* the test of lines 484-486 on one pixel
IsContent(px) ==
  /\ px[4] > visibleAlpha
  /\ (px[1] < whiteThreshold \/ px[2] < whiteThreshold \/ px[3] < whiteThreshold)

\* faulty variant: the maximum is updated only where the minimum is not
ScanStepElseIf(acc, width, data, x, y) ==
  IF IsContent(data[y * width + x])
    THEN [minX |-> IF x < acc.minX THEN x ELSE acc.minX,
          maxX |-> IF x < acc.minX THEN acc.maxX
                   ELSE IF x > acc.maxX THEN x ELSE acc.maxX,
          minY |-> IF y < acc.minY THEN y ELSE acc.minY,
          maxY |-> IF y < acc.minY THEN acc.maxY
                   ELSE IF y > acc.maxY THEN y ELSE acc.maxY,
          found |-> TRUE]
    ELSE acc

\* lines 477-492: the loop body at pixel (x, y), acc = the running state
ScanStep(acc, width, data, x, y) ==
  IF IsContent(data[y * width + x])
    THEN [minX |-> IF x < acc.minX THEN x ELSE acc.minX,
          maxX |-> IF x > acc.maxX THEN x ELSE acc.maxX,
          minY |-> IF y < acc.minY THEN y ELSE acc.minY,
          maxY |-> IF y > acc.maxY THEN y ELSE acc.maxY,
          found |-> TRUE]
    ELSE acc

\* line 476: the inner loop over x (acc is never NULL; the comparison makes
\* the running state a value at every iteration)
RECURSIVE ScanRow(_, _, _, _, _)
ScanRow(acc, width, data, x, y) ==
  IF x >= width \/ acc = NULL THEN acc
  ELSE ScanRow(ScanStep(acc, width, data, x, y), width, data, x + 1, y)

\* line 475: the outer loop over y
RECURSIVE ScanRows(_, _, _, _, _)
ScanRows(acc, width, height, data, y) ==
  IF y >= height \/ acc = NULL THEN acc
  ELSE ScanRows(ScanRow(acc, width, data, 0, y), width, height, data, y + 1)

getContentBounds(canvas) ==
  LET width == canvas.width
      height == canvas.height
      acc == ScanRows([minX |-> width, minY |-> height, maxX |-> 0, maxY |-> 0,
                       found |-> FALSE],
                      width, height, canvas.data, 0)
  IN IF ~acc.found THEN NULL
     ELSE [x |-> acc.minX, y |-> acc.minY,
           w |-> acc.maxX - acc.minX + 1, h |-> acc.maxY - acc.minY + 1]

\* ------------------------------------------------------------ canvas calls
\* ctx.clearRect(x, y, w, h): the covered pixels become transparent black;
\* the part of the rectangle outside the canvas is ignored
clearRect(canvas, x, y, w, h) ==
  [canvas EXCEPT !.data =
     [i \in DOMAIN canvas.data |->
        IF /\ i % canvas.width >= x /\ i % canvas.width < x + w
           /\ i \div canvas.width >= y /\ i \div canvas.width < y + h
          THEN Transparent
          ELSE canvas.data[i]]]

\* The source pixel drawImage takes for destination pixel p (one axis) when
\* the source interval [origin + k * extent / parts, + extent / parts) is
\* stretched over dest integer pixels 0 .. dest - 1.  In units of
\* 1 / (parts * dest) destination pixel p covers [lo, lo + extent).  Where
\* that covers two source pixels the interpolated value is the platform's;
\* it is taken from the first ("lo") or the last ("hi") of them.
SourceIndex(sampler, origin, extent, parts, k, dest, p) ==
  LET unit == parts * dest
      lo == (origin * parts + k * extent) * dest + p * extent
      hi == lo + extent
  IN IF sampler = "lo" THEN lo \div unit ELSE (hi - 1) \div unit

\* lines 599-616: the cell canvas of grid position (r, c) after drawImage
DrawCell(sampler, canvas, grid, rows, cols, r, c) ==
  LET cw == Ceil(grid.sourceW, cols)
      ch == Ceil(grid.sourceH, rows)
  IN [width |-> cw, height |-> ch,
      data |-> [i \in 0..(cw * ch - 1) |->
         PixelAt(canvas,
           SourceIndex(sampler, grid.sourceX, grid.sourceW, cols, c, cw, i % cw),
           SourceIndex(sampler, grid.sourceY, grid.sourceH, rows, r, ch, i \div cw))]]

\* faulty variant: the margin is removed by moving the picture 4 px up and
\* left and clearing what it leaves behind
ShaveEdgesShift(cell) ==
  [cell EXCEPT !.data =
     [i \in DOMAIN cell.data |->
        LET x == (i % cell.width) + safetyShave
            y == (i \div cell.width) + safetyShave
        IN IF x < cell.width /\ y < cell.height
             THEN cell.data[y * cell.width + x]
             ELSE Transparent]]

\* faulty variant: the right edge clear starts at the canvas width
ShaveEdgesRightOff(cell) ==
  LET top == clearRect(cell, 0, 0, cell.width, safetyShave)
      bottom == clearRect(top, 0, cell.height - safetyShave, cell.width, safetyShave)
      left == clearRect(bottom, 0, 0, safetyShave, cell.height)
  IN clearRect(left, cell.width, 0, safetyShave, cell.height)

\* lines 620-623: the four edge clears
ShaveEdges(cell) ==
  LET top == clearRect(cell, 0, 0, cell.width, safetyShave)
      bottom == clearRect(top, 0, cell.height - safetyShave, cell.width, safetyShave)
      left == clearRect(bottom, 0, 0, safetyShave, cell.height)
  IN clearRect(left, cell.width - safetyShave, 0, safetyShave, cell.height)

\* faulty variant: the comparison includes the threshold itself
RemoveBackgroundInclusive(cell) ==
  [cell EXCEPT !.data =
     [i \in DOMAIN cell.data |->
        LET px == cell.data[i]
        IN IF px[1] >= threshold /\ px[2] >= threshold /\ px[3] >= threshold
             THEN <<px[1], px[2], px[3], 0>>
             ELSE px]]

\* lines 628-639: key out near-white pixels
RemoveBackground(cell) ==
  [cell EXCEPT !.data =
     [i \in DOMAIN cell.data |->
        LET px == cell.data[i]
        IN IF px[1] > threshold /\ px[2] > threshold /\ px[3] > threshold
             THEN <<px[1], px[2], px[3], 0>>
             ELSE px]]

\* lines 618-640: what is pushed to rawCanvases for a drawn cell
SanitizeCell(cell, removeBg) ==
  IF removeBg THEN RemoveBackground(ShaveEdges(cell)) ELSE ShaveEdges(cell)

\* faulty variant: without content bounds the grid area is left empty
GridAreaNoFallback(canvas, globalBounds) ==
  IF globalBounds # NULL
       THEN [sourceX |-> globalBounds.x, sourceY |-> globalBounds.y,
             sourceW |-> globalBounds.w, sourceH |-> globalBounds.h]
       ELSE [sourceX |-> 0, sourceY |-> 0, sourceW |-> 0, sourceH |-> 0]

\* lines 574-585: the grid area
GridArea(canvas, globalBounds) ==
  IF globalBounds # NULL
       THEN [sourceX |-> globalBounds.x, sourceY |-> globalBounds.y,
             sourceW |-> globalBounds.w, sourceH |-> globalBounds.h]
       ELSE [sourceX |-> 0, sourceY |-> 0,
             sourceW |-> canvas.width, sourceH |-> canvas.height]

\* ---------------------------------------------------- alignAndMaximizeFrames
\* lines 516-524: the running maximum of one dimension over the non-null bounds
RECURSIVE MaxContent(_, _, _)
MaxContent(bs, k, dim) ==
  IF k > Len(bs) THEN 0
  ELSE LET rest == MaxContent(bs, k + 1, dim)
       IN IF bs[k] # NULL
            THEN Max(IF dim = "w" THEN bs[k].w ELSE bs[k].h, rest)
            ELSE rest

\* faulty variant: the crop is drawn at the padding offset instead of centred
DrawArgsTopLeft(bound, fW, fH) ==
  [sx |-> bound.x, sy |-> bound.y, sw |-> bound.w, sh |-> bound.h,
   dx2 |-> 2 * padding, dy2 |-> 2 * padding,
   dw |-> bound.w, dh |-> bound.h]

\* lines 544-551: the arguments of drawImage; the destination offset
\* (finalW - bound.w) / 2 may be a half pixel, so it is kept doubled
DrawArgs(bound, fW, fH) ==
  [sx |-> bound.x, sy |-> bound.y, sw |-> bound.w, sh |-> bound.h,
   dx2 |-> fW - bound.w, dy2 |-> fH - bound.h,
   dw |-> bound.w, dh |-> bound.h]

\* The source offset (relative to the crop) drawn at destination pixel p for
\* an unscaled draw at doubled offset d2.  At a half-pixel offset the
\* destination pixel straddles two source pixels and the sampler decides.
CropIndex(sampler, d2, p) ==
  IF d2 % 2 = 0 THEN p - d2 \div 2
  ELSE IF sampler = "lo" THEN p - (d2 + 1) \div 2
  ELSE p - (d2 - 1) \div 2

\* faulty variant: the new canvas is sized to this cell's content, not the maximum
DrawCenteredTight(sampler, frame, bound, fW, fH) ==
  LET w == bound.w + padding * 2
      h == bound.h + padding * 2
  IN [width |-> w, height |-> h,
      data |-> [k \in 0..(w * h - 1) |->
         LET jx == (k % w) - padding
             jy == (k \div w) - padding
         IN IF jx >= 0 /\ jx < bound.w /\ jy >= 0 /\ jy < bound.h
              THEN frame.data[(bound.y + jy) * frame.width + bound.x + jx]
              ELSE <<0, 0, 0, 0>>]]

\* lines 537-551: the new canvas after the draw of one non-empty cell
DrawCentered(sampler, frame, bound, fW, fH) ==
  LET a == DrawArgs(bound, fW, fH)
  IN [width |-> fW, height |-> fH,
      data |-> [k \in 0..(fW * fH - 1) |->
         LET jx == CropIndex(sampler, a.dx2, k % fW)
             jy == CropIndex(sampler, a.dy2, k \div fW)
         IN IF jx >= 0 /\ jx < a.sw /\ jy >= 0 /\ jy < a.sh
              THEN PixelAt(frame, a.sx + jx, a.sy + jy)
              ELSE Transparent]]

\* canvas.toDataURL('image/png'): the encoded picture keeps size and pixels
toDataURL(canvas) ==
  [mime |-> "image/png", width |-> canvas.width, height |-> canvas.height,
   data |-> canvas.data]

\* ------------------------------------------------------------ input images
Patterns == {"blank", "full", "box", "dot", "bar", "haze"}
Backgrounds == {Transparent, White}
Samplers == {"lo", "hi"}

\* pixel (lx, ly) of a pw x ph cell drawn with pattern pat on background bg
PatternPixel(pat, lx, ly, pw, ph, bg) ==
  CASE pat = "full" -> Black
    [] pat = "box" ->
         IF lx >= 1 /\ lx <= pw - 2 /\ ly >= 1 /\ ly <= ph - 2 THEN Tint ELSE bg
    [] pat = "dot" ->
         IF lx = pw \div 2 /\ ly = ph \div 2 THEN Dim ELSE bg
    [] pat = "bar" ->
         IF lx >= 4 /\ lx <= 6 /\ ly = 5 THEN Cream ELSE bg
    [] pat = "haze" ->
         IF (lx + ly) % 2 = 0 THEN Faint ELSE Pale
    [] OTHER -> bg

\* a decoded sprite sheet: a rows x cols grid of pw x ph cells inside a
\* background ring; every cell shows pattern base except cell `at`
Sheet(rows, cols, pw, ph, bg, base, special, at) ==
  LET w == 2 * Margin + cols * pw
      h == 2 * Margin + rows * ph
  IN [decodes |-> TRUE, width |-> w, height |-> h,
      data |-> [k \in 0..(w * h - 1) |->
         LET x == (k % w) - Margin
             y == (k \div w) - Margin
         IN IF x < 0 \/ x >= cols * pw \/ y < 0 \/ y >= rows * ph THEN bg
            ELSE LET cell == (y \div ph) * cols + (x \div pw)
                 IN PatternPixel(IF cell = at THEN special ELSE base,
                                 x % pw, y % ph, pw, ph, bg)]]

Broken == [decodes |-> FALSE, width |-> 0, height |-> 0, data |-> <<>>]

\* the sheets offered for a rows x cols request: the last cell is the special one
Images(rows, cols) ==
  {Broken} \cup
  {Sheet(rows, cols, Pitch, Pitch, bg, base, special, rows * cols - 1) :
     bg \in Backgrounds, base \in Patterns, special \in Patterns}

\* faulty variant: an empty cell pushes nothing
FramePushSkipsEmpty(ctx, sampler, frame, bound, fW, fH) ==
  IF ctx /\ bound # NULL
    THEN <<toDataURL(DrawCentered(sampler, frame, bound, fW, fH))>>
  ELSE <<>>

\* faulty variant: the canvas of an empty cell keeps the size of the cell
FramePushRawEmpty(ctx, sampler, frame, bound, fW, fH) ==
  IF ctx /\ bound # NULL
    THEN <<toDataURL(DrawCentered(sampler, frame, bound, fW, fH))>>
  ELSE IF ctx
    THEN <<toDataURL(NewCanvas(frame.width, frame.height))>>
  ELSE <<>>

\* lines 542-556: what one iteration of frames.forEach pushes, as a
\* sequence of zero or one data URLs; ctx tells whether line 540 got a context
FramePush(ctx, sampler, frame, bound, fW, fH) ==
  IF ctx /\ bound # NULL
    THEN <<toDataURL(DrawCentered(sampler, frame, bound, fW, fH))>>
  ELSE IF ctx
    THEN <<toDataURL(NewCanvas(fW, fH))>>
  ELSE <<>>

\* faulty variant: the test compares with < instead of ===
NothingFoundNegative(maxContentW, maxContentH) ==
  maxContentW < 0 \/ maxContentH < 0

\* line 526: the test that makes alignAndMaximizeFrames return []
NothingFound(maxContentW, maxContentH) == maxContentW = 0 \/ maxContentH = 0

\* ------------------------------------------------------- number arithmetic
\* The offsets and sizes of lines 588-589 and 608-611 are JavaScript numbers:
\* binary floating point, every operation rounded to the nearest number with
\* a significand of SigBits bits, ties to even (53 bits in the program).  A
\* number is held here as a count of units of 1 / Scale; every number between
\* 1/4 and 2^SigBits is a whole count of units.
FracBits == SigBits + 1
Scale == 2 ^ FracBits

\* n / m rounded to the nearest integer, ties to even
RoundHalfEven(n, m) ==
  LET q == n \div m
      rem == n % m
  IN IF 2 * rem < m THEN q
     ELSE IF 2 * rem > m THEN q + 1
     ELSE IF q % 2 = 0 THEN q ELSE q + 1

\* the spacing, in units, of the floating-point numbers around n / d units
RECURSIVE UlpFrom(_, _, _)
UlpFrom(n, d, q) ==
  IF n < (2 ^ SigBits) * q * d THEN q ELSE UlpFrom(n, d, 2 * q)

\* n / d units rounded to a floating-point number
Round(n, d) ==
  LET q == UlpFrom(n, d, 1)
  IN q * RoundHalfEven(n, d * q)

\* faulty variant: the quotient is truncated to an integer
FDivTruncated(a, b) == (a \div b) * Scale

\* the operators / * + on an integer a (or b), or a number x, y in units
FDiv(a, b) == Round(a * Scale, b)
FMul(a, x) == Round(a * x, 1)
FAdd(a, x) == Round(a * Scale + x, 1)

\* lines 588-589 and 606-611: the source rectangle drawImage is given for
\* grid position (r, c), in units
SourceRect(area, r, c) ==
  LET frameWidth == FDiv(area.sourceW, area.cols)
      frameHeight == FDiv(area.sourceH, area.rows)
  IN [r |-> r, c |-> c,
      sx |-> FAdd(area.sourceX, FMul(c, frameWidth)),
      sy |-> FAdd(area.sourceY, FMul(r, frameHeight)),
      sw |-> frameWidth,
      sh |-> frameHeight]

\* -------------------------------------------------------------------- state
VARIABLES
  img,          \* the picture behind spriteSheetBase64
  rows, cols, removeBg,
  sampler,      \* the platform's resampling choice
  pc,           \* "loading", "slicing", "align", "render", "done"
  canvas,       \* the source canvas of onload, NULL before
  globalBounds, \* getContentBounds of the source canvas
  grid,         \* sourceX, sourceY, sourceW, sourceH
  r, c,         \* loop counters of performFixedGridSlicing
  rawCanvases,
  bounds, finalW, finalH,
  i,            \* index of frames.forEach
  resultBase64,
  promise,      \* state, value, and how often resolve / reject were called
  nullCtx,      \* the getContext calls that returned null
  cellPos,      \* history: grid position of each entry of rawCanvases
  frameCell,    \* history: index in frames of each entry of resultBase64
  drawn         \* history: drawImage arguments of each entry, NULL if none

\* the source rectangles of one run of the loop of performFixedGridSlicing
VARIABLES
  area,         \* sourceX, sourceY, sourceW, sourceH, rows, cols and the
                \* width and height of the source canvas
  rectR, rectC, \* the loop counters r and c
  srcRects      \* history: the source rectangle of every drawImage so far

rectVars == <<area, rectR, rectC, srcRects>>

RectIdle ==
  /\ area = NULL
  /\ rectR = 0
  /\ rectC = 0
  /\ srcRects = <<>>

\* several calls of sliceSpriteSheet in one page
VARIABLES
  calls,        \* per call: its arguments, its position and its promise
  log           \* history: the calls and the image callbacks, in order

callVars == <<calls, log>>

CallsIdle ==
  /\ calls = <<>>
  /\ log = <<>>

\* the app component and its asynchronous tasks
VARIABLES
  version,      \* which App component runs: "analysing" (src/App.tsx) or
                \* "direct" (src/unnamed/part_001)
  appState, originalImage, characterDescription, actionPrompt,
  generatedFrames, fps, errorMsg, frameCount,
  tasks,        \* the asynchronous tasks in flight
  started       \* how many tasks have been started
\* A task holds what its continuation will read: the image, for a file read
\* the actionPrompt its closure holds, for a generation the description passed
\* to the service and the rows and cols passed to both services.

appVars == <<version, appState, originalImage, characterDescription,
             actionPrompt, generatedFrames, fps, errorMsg, frameCount, tasks,
             started>>

\* JavaScript null in a state of type string | null
null == "null"

AppIdle ==
  /\ version = "direct"
  /\ appState = "IDLE"
  /\ originalImage = null
  /\ characterDescription = ""
  /\ actionPrompt = ""
  /\ generatedFrames = <<>>
  /\ fps = 6
  /\ errorMsg = null
  /\ frameCount = 4
  /\ tasks = {}
  /\ started = 0

\* AnimationPreview.tsx lines 5-15: the props and the state of the component
VARIABLES
  previewFrames,      \* prop frames
  previewFps,         \* prop fps
  isLoading,          \* prop isLoading
  currentFrameIndex,
  isPlaying,
  timerFrames         \* frames.length in the closure of the interval of
                      \* timerRef, 0 when no interval is set

previewVars == <<previewFrames, previewFps, isLoading, currentFrameIndex,
                 isPlaying, timerFrames>>

PreviewIdle ==
  /\ previewFrames = <<>>
  /\ previewFps = 6
  /\ isLoading = FALSE
  /\ currentFrameIndex = 0
  /\ isPlaying = TRUE
  /\ timerFrames = 0

\* the state that belongs to the other specifications of this module
others == <<rectVars, callVars, appVars, previewVars>>

OthersIdle == RectIdle /\ CallsIdle /\ AppIdle /\ PreviewIdle

vars == <<img, rows, cols, removeBg, sampler, pc, canvas, globalBounds, grid,
          r, c, rawCanvases, bounds, finalW, finalH, i, resultBase64, promise,
          nullCtx, cellPos, frameCell, drawn>>

inputs == <<img, rows, cols, removeBg, sampler>>

\* the executor's resolve and reject: only the first settlement takes effect
Resolve(p, v) ==
  IF p.state = "pending"
    THEN [state |-> "fulfilled", value |-> v, resolves |-> p.resolves + 1,
          rejects |-> p.rejects]
    ELSE [p EXCEPT !.resolves = @ + 1]

Reject(p) ==
  IF p.state = "pending"
    THEN [state |-> "rejected", value |-> <<>>, resolves |-> p.resolves,
          rejects |-> p.rejects + 1]
    ELSE [p EXCEPT !.rejects = @ + 1]

\* getContext('2d') on a newly created canvas: the context, or null
CtxOutcomes ==
  IF Cardinality(nullCtx) < MaxCtxFailures THEN {TRUE, FALSE} ELSE {TRUE}

Init ==
  /\ rows \in 1..MaxRows
  /\ cols \in 1..MaxCols
  /\ rows * cols <= MaxCells
  /\ removeBg \in BOOLEAN
  /\ sampler \in Samplers
  /\ img \in Images(rows, cols)
  /\ pc = "loading"
  /\ canvas = NULL
  /\ globalBounds = NULL
  /\ grid = NULL
  /\ r = 0
  /\ c = 0
  /\ rawCanvases = <<>>
  /\ bounds = <<>>
  /\ finalW = 0
  /\ finalH = 0
  /\ i = 0
  /\ resultBase64 = <<>>
  /\ promise = [state |-> "pending", value |-> <<>>, resolves |-> 0, rejects |-> 0]
  /\ nullCtx = {}
  /\ cellPos = <<>>
  /\ frameCell = <<>>
  /\ drawn = <<>>
  /\ OthersIdle

\* faulty variant: onerror rejects, as loadImage does
ImgOnerrorRejects ==
  /\ pc = "loading"
  /\ ~img.decodes
  /\ promise' = Reject(promise)
  /\ pc' = "done"
  /\ UNCHANGED <<others, inputs, canvas, globalBounds, grid, r, c, rawCanvases, bounds,
                 finalW, finalH, i, resultBase64, nullCtx, cellPos, frameCell,
                 drawn>>

\* line 677: img.onerror
ImgOnerror ==
  /\ pc = "loading"
  /\ ~img.decodes
  /\ promise' = Resolve(promise, <<>>)
  /\ pc' = "done"
  /\ UNCHANGED <<others, inputs, canvas, globalBounds, grid, r, c, rawCanvases, bounds,
                 finalW, finalH, i, resultBase64, nullCtx, cellPos, frameCell,
                 drawn>>

\* lines 661-674 and 570-595: img.onload up to the first loop iteration.
\* The getContext of line 570 is a second call on the same canvas and
\* returns the context of line 665.
ImgOnload ==
  /\ pc = "loading"
  /\ img.decodes
  /\ \E ctx \in CtxOutcomes :
       IF ~ctx
         THEN /\ promise' = Resolve(promise, <<>>)
              /\ pc' = "done"
              /\ nullCtx' = nullCtx \cup {<<"source", 0>>}
              /\ canvas' = NewCanvas(img.width, img.height)
              /\ UNCHANGED <<globalBounds, grid>>
         ELSE /\ canvas' = [width |-> img.width, height |-> img.height,
                            data |-> img.data]
              /\ globalBounds' = getContentBounds(canvas')
              /\ grid' = GridArea(canvas', globalBounds')
              /\ pc' = "slicing"
              /\ UNCHANGED <<promise, nullCtx>>
  /\ UNCHANGED <<others, inputs, r, c, rawCanvases, bounds, finalW, finalH, i,
                 resultBase64, cellPos, frameCell, drawn>>

\* faulty variant: the loops are nested the other way round (column by column)
SliceCellColumnMajor ==
  /\ pc = "slicing"
  /\ \E cellCtx \in CtxOutcomes :
       IF cellCtx
         THEN /\ rawCanvases' = Append(rawCanvases,
                   SanitizeCell(DrawCell(sampler, canvas, grid, rows, cols, r, c),
                                removeBg))
              /\ cellPos' = Append(cellPos, <<r, c>>)
              /\ UNCHANGED nullCtx
         ELSE /\ nullCtx' = nullCtx \cup {<<"cell", r * cols + c>>}
              /\ UNCHANGED <<rawCanvases, cellPos>>
  /\ r' = IF r + 1 < rows THEN r + 1 ELSE 0
  /\ c' = IF r + 1 < rows THEN c ELSE c + 1
  /\ pc' = IF c' < cols THEN "slicing" ELSE "align"
  /\ UNCHANGED <<others, inputs, canvas, globalBounds, grid, bounds, finalW, finalH, i,
                 resultBase64, promise, frameCell, drawn>>

\* lines 597-643: one iteration of the inner loop
SliceCell ==
  /\ pc = "slicing"
  /\ \E cellCtx \in CtxOutcomes :
       IF cellCtx
         THEN /\ rawCanvases' = Append(rawCanvases,
                   SanitizeCell(DrawCell(sampler, canvas, grid, rows, cols, r, c),
                                removeBg))
              /\ cellPos' = Append(cellPos, <<r, c>>)
              /\ UNCHANGED nullCtx
         ELSE /\ nullCtx' = nullCtx \cup {<<"cell", r * cols + c>>}
              /\ UNCHANGED <<rawCanvases, cellPos>>
  /\ c' = IF c + 1 < cols THEN c + 1 ELSE 0
  /\ r' = IF c + 1 < cols THEN r ELSE r + 1
  /\ pc' = IF r' < rows THEN "slicing" ELSE "align"
  /\ UNCHANGED <<others, inputs, canvas, globalBounds, grid, bounds, finalW, finalH, i,
                 resultBase64, promise, frameCell, drawn>>

\* lines 509-533: the bounds of every cell and the common size; every cell
\* canvas already has its context, so line 511 does not return
AlignBounds ==
  /\ pc = "align"
  /\ bounds' = [k \in 1..Len(rawCanvases) |-> getContentBounds(rawCanvases[k])]
  /\ LET maxContentW == MaxContent(bounds', 1, "w")
         maxContentH == MaxContent(bounds', 1, "h")
     IN IF NothingFound(maxContentW, maxContentH)
          THEN /\ promise' = Resolve(promise, <<>>)
               /\ pc' = "done"
               /\ UNCHANGED <<finalW, finalH>>
          ELSE /\ finalW' = maxContentW + padding * 2
               /\ finalH' = maxContentH + padding * 2
               /\ IF Len(rawCanvases) > 0
                    THEN pc' = "render" /\ UNCHANGED promise
                    ELSE \* forEach over no frames: resultBase64 is returned empty
                         pc' = "done" /\ promise' = Resolve(promise, resultBase64)
  /\ UNCHANGED <<others, inputs, canvas, globalBounds, grid, r, c, rawCanvases, i,
                 resultBase64, nullCtx, cellPos, frameCell, drawn>>

\* faulty variant: the normalizer crops the cell canvas itself to its bound
\* before it copies it
RenderFrameCropsCell ==
  /\ pc = "render"
  /\ \E ctx \in CtxOutcomes :
       LET pushed == FramePush(ctx, sampler, rawCanvases[i + 1], bounds[i + 1],
                               finalW, finalH)
       IN /\ resultBase64' = resultBase64 \o pushed
          /\ frameCell' = IF pushed = <<>> THEN frameCell ELSE Append(frameCell, i)
          /\ drawn' = IF pushed = <<>> THEN drawn
                      ELSE IF bounds[i + 1] = NULL THEN Append(drawn, NULL)
                      ELSE Append(drawn, DrawArgs(bounds[i + 1], finalW, finalH))
          /\ nullCtx' = IF ctx THEN nullCtx ELSE nullCtx \cup {<<"frame", i>>}
  /\ rawCanvases' =
       [rawCanvases EXCEPT ![i + 1] =
          IF bounds[i + 1] = NULL THEN @
          ELSE clearRect(@, 0, 0, bounds[i + 1].x + 1, @.height)]
  /\ i' = i + 1
  /\ IF i' < Len(rawCanvases)
       THEN UNCHANGED <<pc, promise>>
       ELSE /\ promise' = Resolve(promise, resultBase64')
            /\ pc' = "done"
  /\ UNCHANGED <<others, inputs, canvas, globalBounds, grid, r, c, bounds,
                 finalW, finalH, cellPos>>

\* lines 535-559 and 675: one iteration of frames.forEach; after the last
\* one the result is returned and resolves the promise
RenderFrame ==
  /\ pc = "render"
  /\ \E ctx \in CtxOutcomes :
       LET pushed == FramePush(ctx, sampler, rawCanvases[i + 1], bounds[i + 1],
                               finalW, finalH)
       IN /\ resultBase64' = resultBase64 \o pushed
          /\ frameCell' = IF pushed = <<>> THEN frameCell ELSE Append(frameCell, i)
          /\ drawn' = IF pushed = <<>> THEN drawn
                      ELSE IF bounds[i + 1] = NULL THEN Append(drawn, NULL)
                      ELSE Append(drawn, DrawArgs(bounds[i + 1], finalW, finalH))
          /\ nullCtx' = IF ctx THEN nullCtx ELSE nullCtx \cup {<<"frame", i>>}
  /\ i' = i + 1
  /\ IF i' < Len(rawCanvases)
       THEN UNCHANGED <<pc, promise>>
       ELSE /\ promise' = Resolve(promise, resultBase64')
            /\ pc' = "done"
  /\ UNCHANGED <<others, inputs, canvas, globalBounds, grid, r, c, rawCanvases, bounds,
                 finalW, finalH, cellPos>>

Next == ImgOnerror \/ ImgOnload \/ SliceCell \/ AlignBounds \/ RenderFrame

Spec == Init /\ [][Next]_vars

TypeOK ==
  /\ pc \in {"loading", "slicing", "align", "render", "done"}
  /\ promise.state \in {"pending", "fulfilled", "rejected"}

\* ---------------------------------------------------------------- properties
\* The claims' own reading of the rasters, written without the operators above.

\* indices of the foreground pixels: alpha > 20 and some colour channel < 240
Foreground(ras) ==
  {k \in DOMAIN ras.data :
     /\ ras.data[k][4] > 20
     /\ (ras.data[k][1] < 240 \/ ras.data[k][2] < 240 \/ ras.data[k][3] < 240)}

SetMin(S) == CHOOSE m \in S : \A n \in S : m <= n
SetMax(S) == CHOOSE m \in S : \A n \in S : m >= n
ForegroundXs(ras) == {k % ras.width : k \in Foreground(ras)}
ForegroundYs(ras) == {k \div ras.width : k \in Foreground(ras)}

\* every (raster, result) pair of a getContentBounds call made so far
BoundsCalls ==
  (IF canvas # NULL /\ <<"source", 0>> \notin nullCtx
     THEN {<<canvas, globalBounds>>} ELSE {})
  \cup {<<rawCanvases[k], bounds[k]>> : k \in 1..Len(bounds)}

SourceCtxFailed == <<"source", 0>> \in nullCtx
CellCtxFailed == \E k \in 0..(rows * cols - 1) : <<"cell", k>> \in nullCtx
FrameCtxFailed == \E k \in 0..(rows * cols - 1) : <<"frame", k>> \in nullCtx

SomeCellHasContent ==
  \E k \in 1..Len(rawCanvases) : Foreground(rawCanvases[k]) # {}

IsTransparent(frame) == \A k \in DOMAIN frame.data : frame.data[k][4] = 0

C2_UniformSize ==
  LET full == {k \in 1..Len(rawCanvases) : Foreground(rawCanvases[k]) # {}}
      maxW == SetMax({SetMax(ForegroundXs(rawCanvases[k]))
                        - SetMin(ForegroundXs(rawCanvases[k])) + 1 : k \in full})
      maxH == SetMax({SetMax(ForegroundYs(rawCanvases[k]))
                        - SetMin(ForegroundYs(rawCanvases[k])) + 1 : k \in full})
  IN \A k \in 1..Len(resultBase64) :
        /\ resultBase64[k].width = maxW + 2 * 2
        /\ resultBase64[k].height = maxH + 2 * 2
        /\ DOMAIN resultBase64[k].data
             = 0..(resultBase64[k].width * resultBase64[k].height - 1)

C2_Witness ==
  /\ pc = "done" /\ Len(promise.value) >= 2
  /\ \E j, k \in 1..Len(bounds) :
        /\ bounds[j] # NULL /\ bounds[k] # NULL
        /\ bounds[j].w < bounds[k].w /\ bounds[j].h < bounds[k].h

\* the cells given to alignAndMaximizeFrames: some with content, some without
PartialExtraction ==
  /\ \E k \in 1..Len(rawCanvases) : Foreground(rawCanvases[k]) # {}
  /\ \E k \in 1..Len(rawCanvases) : Foreground(rawCanvases[k]) = {}

EmptyCellsKept ==
  /\ Len(promise.value) = Len(rawCanvases)
  /\ \A k \in 1..Len(promise.value) :
        /\ frameCell[k] = k - 1
        /\ \A j \in 1..Len(promise.value) :
              /\ promise.value[k].width = promise.value[j].width
              /\ promise.value[k].height = promise.value[j].height
        /\ Foreground(rawCanvases[k]) = {} => IsTransparent(promise.value[k])

\* C3 as stated: with some but not all cells having content, the normalizer
\* returns one frame per input cell, in order, the empty ones transparent.
C3_Original ==
  (pc = "done" /\ PartialExtraction) => EmptyCellsKept

\* C3 (amended): the same, provided a 2D context is obtained for every output
\* canvas (a frame whose canvas has no context is left out).
C3_EmptyCellsKept ==
  (pc = "done" /\ PartialExtraction /\ ~FrameCtxFailed) => EmptyCellsKept

C3_Witness ==
  /\ pc = "done" /\ PartialExtraction /\ nullCtx = {}
  /\ Len(promise.value) = 4
  /\ Foreground(rawCanvases[4]) = {}

AllPixels(ras, px) == \A k \in DOMAIN ras.data : ras.data[k] = px

\* C4: if no cell given to the normalizer has foreground content the promise
\* resolves to the empty sequence; so does every call on a decoded sheet
\* that is white all over or transparent all over.
C4_NoContentEmpty ==
  (pc = "done" /\ img.decodes) =>
     /\ ~SomeCellHasContent =>
          promise.state = "fulfilled" /\ promise.value = <<>>
     /\ (AllPixels(img, <<255, 255, 255, 255>>) \/ AllPixels(img, <<0, 0, 0, 0>>)) =>
          promise.state = "fulfilled" /\ promise.value = <<>>

C4_Witness ==
  /\ pc = "done" /\ img.decodes /\ nullCtx = {}
  /\ AllPixels(img, <<255, 255, 255, 255>>)
  /\ Len(rawCanvases) = 4
  /\ promise.value = <<>>

\* C5: the promise is never rejected, resolve is called at most once and
\* exactly once by the time the call is over, and a failed decode or a
\* missing source context resolves it to the empty sequence.
C5_ResolvesOnce ==
  /\ promise.rejects = 0
  /\ promise.state # "rejected"
  /\ promise.resolves <= 1
  /\ (pc = "done") <=> (promise.resolves = 1 /\ promise.state = "fulfilled")
  /\ (pc = "done" /\ (~img.decodes \/ SourceCtxFailed)) => promise.value = <<>>

C5_Witness ==
  /\ pc = "done" /\ ~img.decodes
  /\ promise.state = "fulfilled" /\ promise.resolves = 1

C5_WitnessNoContext ==
  /\ pc = "done" /\ img.decodes /\ SourceCtxFailed
  /\ promise.state = "fulfilled" /\ promise.resolves = 1

\* C6: getContentBounds returns null exactly for the rasters without a
\* foreground pixel; a returned box has w >= 1, h >= 1 and lies in the raster.
C6_NullIffNoForeground ==
  \A call \in BoundsCalls :
     LET ras == call[1]
         box == call[2]
     IN /\ (box = NULL) <=> (Foreground(ras) = {})
        /\ box # NULL =>
             /\ box.w >= 1 /\ box.h >= 1 /\ box.x >= 0 /\ box.y >= 0
             /\ box.x + box.w <= ras.width
             /\ box.y + box.h <= ras.height

C6_Witness ==
  /\ \E call \in BoundsCalls :
        /\ call[2] = NULL
        /\ \E k \in DOMAIN call[1].data : call[1].data[k][4] > 20
  /\ \E call \in BoundsCalls : call[2] # NULL

\* C7: for a raster with foreground pixels the box is exactly
\* {minX, minY, maxX - minX + 1, maxY - minY + 1} over them: all of them lie
\* in the box and each of its four edges holds one.
C7_TightBox ==
  \A call \in BoundsCalls :
     LET ras == call[1]
         box == call[2]
         xs == ForegroundXs(ras)
         ys == ForegroundYs(ras)
     IN Foreground(ras) # {} =>
          /\ box # NULL
          /\ box.x = SetMin(xs) /\ box.w = SetMax(xs) - SetMin(xs) + 1
          /\ box.y = SetMin(ys) /\ box.h = SetMax(ys) - SetMin(ys) + 1
          /\ \A x \in xs : box.x <= x /\ x < box.x + box.w
          /\ \A y \in ys : box.y <= y /\ y < box.y + box.h
          /\ box.x \in xs /\ box.x + box.w - 1 \in xs
          /\ box.y \in ys /\ box.y + box.h - 1 \in ys

C7_Witness ==
  \E call \in BoundsCalls :
     /\ call[2] # NULL
     /\ call[2].x > 0 /\ call[2].y > 0
     /\ call[2].w > 1 /\ call[2].h > 1 /\ call[2].w # call[2].h
     /\ call[2].x + call[2].w < call[1].width

RowMajor ==
  /\ Len(rawCanvases) = rows * cols
  /\ \A k \in 1..Len(cellPos) :
        cellPos[k] = <<(k - 1) \div cols, (k - 1) % cols>>

FramesFollowCells ==
  \A k \in 1..Len(frameCell) : frameCell[k] = k - 1

\* when the grid area divides evenly and nothing is keyed out, the pixels of
\* cell (r, c) inside the 4 px margin are those of its rectangle of the source
CellShowsGridPosition ==
  (grid.sourceW % cols = 0 /\ grid.sourceH % rows = 0 /\ ~removeBg) =>
     \A k \in 1..Len(rawCanvases) :
        LET cell == rawCanvases[k]
            cr == cellPos[k][1]
            cc == cellPos[k][2]
        IN \A n \in DOMAIN cell.data :
              LET x == n % cell.width
                  y == n \div cell.width
              IN (x >= 4 /\ x < cell.width - 4 /\ y >= 4 /\ y < cell.height - 4) =>
                   cell.data[n] =
                     canvas.data[(grid.sourceY + cr * cell.height + y) * canvas.width
                                 + grid.sourceX + cc * cell.width + x]

\* the loop of performFixedGridSlicing has run to its end
Sliced == grid # NULL /\ pc \in {"align", "render", "done"}

\* C8 as stated: the loop yields rows * cols cells in row-major order and
\* output frame i comes from cell i.
C8_Original ==
  Sliced => (RowMajor /\ FramesFollowCells)

\* C8 (amended): a cell or a frame whose canvas has no 2D context is left
\* out.  Without such a cell the loop yields rows * cols cells, cell
\* r * cols + c showing grid position (r, c); without such a frame output
\* frame i comes from cell i; in every case the order of the cells and of the
\* frames is the row-major order.
C8_RowMajor ==
  Sliced =>
     /\ ~CellCtxFailed => RowMajor
     /\ ~FrameCtxFailed => FramesFollowCells
     /\ CellShowsGridPosition
     /\ \A j, k \in 1..Len(cellPos) :
           j < k => cellPos[j][1] * cols + cellPos[j][2]
                      < cellPos[k][1] * cols + cellPos[k][2]
     /\ \A j, k \in 1..Len(frameCell) : j < k => frameCell[j] < frameCell[k]

C8_Witness ==
  /\ pc = "done" /\ nullCtx = {}
  /\ rows = 2 /\ cols = 2
  /\ Len(promise.value) = 4
  /\ cellPos[2] = <<0, 1>> /\ cellPos[3] = <<1, 0>>
  /\ frameCell = <<0, 1, 2, 3>>

\* C9: a non-empty cell is drawn from exactly its detected bound, unscaled,
\* at offset ((finalW - bound.w) / 2, (finalH - bound.h) / 2): equal left and
\* right margins, equal top and bottom margins, each at least 2, the region
\* inside the frame.  Offsets and margins are doubled (a half pixel is 1).
C9_Centered ==
  \A k \in 1..Len(drawn) :
     drawn[k] # NULL =>
        LET a == drawn[k]
            cell == rawCanvases[frameCell[k] + 1]
            b == bounds[frameCell[k] + 1]
            f == resultBase64[k]
            left2 == a.dx2
            right2 == 2 * f.width - (a.dx2 + 2 * a.dw)
            top2 == a.dy2
            bottom2 == 2 * f.height - (a.dy2 + 2 * a.dh)
        IN /\ b # NULL
           /\ a.sx = b.x /\ a.sy = b.y /\ a.sw = b.w /\ a.sh = b.h
           /\ a.dw = b.w /\ a.dh = b.h
           /\ a.dx2 = finalW - b.w /\ a.dy2 = finalH - b.h
           /\ left2 = right2 /\ top2 = bottom2
           /\ left2 >= 2 * 2 /\ top2 >= 2 * 2
           /\ \A n \in DOMAIN f.data :
                 LET x == n % f.width
                     y == n \div f.width
                     in2 == /\ 2 * x + 2 > a.dx2 /\ 2 * x < a.dx2 + 2 * a.dw
                            /\ 2 * y + 2 > a.dy2 /\ 2 * y < a.dy2 + 2 * a.dh
                 IN /\ ~in2 => f.data[n] = <<0, 0, 0, 0>>
                    /\ (a.dx2 % 2 = 0 /\ a.dy2 % 2 = 0 /\ in2) =>
                         f.data[n] = cell.data[(b.y + y - a.dy2 \div 2) * cell.width
                                               + b.x + x - a.dx2 \div 2]

C9_Witness ==
  /\ pc = "done"
  /\ \E k \in 1..Len(drawn) :
        /\ drawn[k] # NULL
        /\ drawn[k].dx2 > 4 /\ drawn[k].dx2 % 2 = 0 /\ drawn[k].dy2 % 2 = 0
        /\ ~IsTransparent(resultBase64[k])
  /\ \E k \in 1..Len(drawn) : drawn[k] # NULL /\ drawn[k].dx2 = 4

C9_WitnessHalfPixel ==
  \E k \in 1..Len(drawn) : drawn[k] # NULL /\ drawn[k].dx2 % 2 = 1

\* C10: after the edge shave every pixel within 4 px of a border of the cell
\* has alpha 0, the cell keeps its width and height, and with
\* removeBackground = false every other pixel is as drawImage left it.
C10_EdgeShave ==
  \A k \in 1..Len(rawCanvases) :
     LET cell == rawCanvases[k]
         raw == DrawCell(sampler, canvas, grid, rows, cols, cellPos[k][1], cellPos[k][2])
     IN /\ cell.width = raw.width /\ cell.height = raw.height
        /\ DOMAIN cell.data = DOMAIN raw.data
        /\ \A n \in DOMAIN cell.data :
              LET x == n % cell.width
                  y == n \div cell.width
              IN IF x < 4 \/ x >= cell.width - 4 \/ y < 4 \/ y >= cell.height - 4
                   THEN cell.data[n][4] = 0
                   ELSE ~removeBg => cell.data[n] = raw.data[n]

C10_Witness ==
  /\ ~removeBg
  /\ \E k \in 1..Len(rawCanvases) :
        LET cell == rawCanvases[k]
            raw == DrawCell(sampler, canvas, grid, rows, cols, cellPos[k][1], cellPos[k][2])
        IN /\ \E n \in DOMAIN cell.data : cell.data[n][4] # 0
           /\ \E n \in DOMAIN cell.data : raw.data[n][4] # 0 /\ cell.data[n][4] = 0
           /\ cell.width # cell.height

\* the pixels of a cell raster that the edge shave does not reach
Interior(cell, n) ==
  /\ n % cell.width >= 4 /\ n % cell.width < cell.width - 4
  /\ n \div cell.width >= 4 /\ n \div cell.width < cell.height - 4

NearWhite(px) == px[1] > 230 /\ px[2] > 230 /\ px[3] > 230

\* C11: with removeBackground = true every pixel of a sanitized cell whose
\* red, green and blue are all above 230 has alpha 0, and every pixel outside
\* the shaved margin with some channel at or below 230 keeps the value
\* drawImage gave it; with removeBackground = false the key-out alters no
\* pixel: the cell is the drawn cell with only its margin cleared.
C11_KeyOut ==
  \A k \in 1..Len(rawCanvases) :
     LET cell == rawCanvases[k]
         raw == DrawCell(sampler, canvas, grid, rows, cols, cellPos[k][1], cellPos[k][2])
     IN \A n \in DOMAIN cell.data :
           IF removeBg
             THEN /\ NearWhite(cell.data[n]) => cell.data[n][4] = 0
                  /\ NearWhite(raw.data[n]) => cell.data[n][4] = 0
                  /\ (Interior(cell, n) /\ ~NearWhite(raw.data[n])) =>
                        cell.data[n] = raw.data[n]
             ELSE cell.data[n] =
                    IF Interior(cell, n) THEN raw.data[n] ELSE <<0, 0, 0, 0>>

\* a key-out that made a visible near-white pixel transparent and kept a
\* pixel with a channel at exactly 230, and a run without key-out that kept a
\* visible near-white pixel
C11_Witness ==
  /\ removeBg
  /\ \E k \in 1..Len(rawCanvases) :
        LET cell == rawCanvases[k]
            raw == DrawCell(sampler, canvas, grid, rows, cols, cellPos[k][1], cellPos[k][2])
        IN \E n \in DOMAIN cell.data :
              /\ Interior(cell, n) /\ NearWhite(raw.data[n])
              /\ raw.data[n][4] = 255 /\ cell.data[n][4] = 0
  /\ \E k \in 1..Len(rawCanvases) :
        LET cell == rawCanvases[k]
            raw == DrawCell(sampler, canvas, grid, rows, cols, cellPos[k][1], cellPos[k][2])
        IN \E n \in DOMAIN cell.data :
              /\ Interior(cell, n) /\ raw.data[n][1] = 230
              /\ cell.data[n] = raw.data[n] /\ cell.data[n][4] = 255

C11_WitnessKept ==
  /\ ~removeBg
  /\ \E k \in 1..Len(rawCanvases) :
        \E n \in DOMAIN rawCanvases[k].data :
           NearWhite(rawCanvases[k].data[n]) /\ rawCanvases[k].data[n][4] = 255

\* C12: the sanitizer with removeBackground = false is idempotent: sanitizing
\* a drawn cell twice gives the raster that sanitizing it once gives.
C12_ShaveIdempotent ==
  \A k \in 1..Len(rawCanvases) :
     LET raw == DrawCell(sampler, canvas, grid, rows, cols, cellPos[k][1], cellPos[k][2])
         once == SanitizeCell(raw, FALSE)
     IN /\ SanitizeCell(once, FALSE) = once
        /\ ~removeBg => (rawCanvases[k] = once /\ SanitizeCell(rawCanvases[k], FALSE) = rawCanvases[k])

\* a cell whose first shave cleared visible pixels and left visible pixels
C12_Witness ==
  /\ ~removeBg
  /\ \E k \in 1..Len(rawCanvases) :
        LET raw == DrawCell(sampler, canvas, grid, rows, cols, cellPos[k][1], cellPos[k][2])
        IN /\ rawCanvases[k] # raw
           /\ SanitizeCell(raw, FALSE) = rawCanvases[k]
           /\ \E n \in DOMAIN raw.data :
                 Interior(raw, n) /\ rawCanvases[k].data[n][4] = 255

\* the sum of the widths of the cell rasters of grid row row, from entry k on
RECURSIVE RowWidthSum(_, _)
RowWidthSum(row, k) ==
  IF k > Len(rawCanvases) THEN 0
  ELSE (IF cellPos[k][1] = row THEN rawCanvases[k].width ELSE 0)
         + RowWidthSum(row, k + 1)

\* the sum of the heights of the cell rasters of grid column col
RECURSIVE ColHeightSum(_, _)
ColHeightSum(col, k) ==
  IF k > Len(rawCanvases) THEN 0
  ELSE (IF cellPos[k][2] = col THEN rawCanvases[k].height ELSE 0)
         + ColHeightSum(col, k + 1)

CellsIn(row) == {k \in 1..Len(rawCanvases) : cellPos[k][1] = row}
CellsOf(col) == {k \in 1..Len(rawCanvases) : cellPos[k][2] = col}

\* C13: every cell raster has the integer size ceil(gridW / cols) x
\* ceil(gridH / rows): the least integers w, h with w * cols >= gridW and
\* h * rows >= gridH.  For every row that has its cols cells the sum of the
\* widths is at least gridW and exceeds it by less than cols; likewise for
\* the heights of every column that has its rows cells.
C13_CellSize ==
  Sliced =>
     /\ \A k \in 1..Len(rawCanvases) :
           LET w == rawCanvases[k].width
               h == rawCanvases[k].height
           IN /\ w * cols >= grid.sourceW /\ (w - 1) * cols < grid.sourceW
              /\ h * rows >= grid.sourceH /\ (h - 1) * rows < grid.sourceH
              /\ DOMAIN rawCanvases[k].data = 0..(w * h - 1)
     /\ \A row \in 0..(rows - 1) :
           Cardinality(CellsIn(row)) = cols =>
              /\ RowWidthSum(row, 1) >= grid.sourceW
              /\ RowWidthSum(row, 1) - grid.sourceW < cols
     /\ \A col \in 0..(cols - 1) :
           Cardinality(CellsOf(col)) = rows =>
              /\ ColHeightSum(col, 1) >= grid.sourceH
              /\ ColHeightSum(col, 1) - grid.sourceH < rows

\* a complete grid whose width does not divide by cols (the widths exceed
\* the grid area) while its height divides by rows
C13_Witness ==
  /\ Sliced /\ nullCtx = {}
  /\ rows = 2 /\ cols = 2 /\ Len(rawCanvases) = 4
  /\ grid.sourceW % cols # 0
  /\ grid.sourceH % rows = 0
  /\ RowWidthSum(1, 1) = grid.sourceW + 1
  /\ ColHeightSum(1, 1) = grid.sourceH

\* ----------------------------------------- source rectangles specification
\* The loop of performFixedGridSlicing seen from its drawImage arguments only:
\* a grid area inside a source canvas, and one source rectangle per cell.
SliceIdle ==
  /\ rows = 1 /\ cols = 1 /\ removeBg = FALSE /\ sampler = "lo" /\ img = Broken
  /\ pc = "done"
  /\ canvas = NULL /\ globalBounds = NULL /\ grid = NULL
  /\ r = 0 /\ c = 0
  /\ rawCanvases = <<>> /\ bounds = <<>>
  /\ finalW = 0 /\ finalH = 0 /\ i = 0
  /\ resultBase64 = <<>>
  /\ promise = [state |-> "pending", value |-> <<>>, resolves |-> 0, rejects |-> 0]
  /\ nullCtx = {} /\ cellPos = <<>> /\ frameCell = <<>> /\ drawn = <<>>

\* lines 574-585: a grid area is a rectangle inside the source canvas (the
\* content bounds, or the whole canvas); it reaches the right and bottom
\* border or stops one pixel before them
Areas ==
  {[sourceX |-> x, sourceY |-> y, sourceW |-> w, sourceH |-> h,
    rows |-> nr, cols |-> nc, width |-> x + w + mx, height |-> y + h + my] :
     x \in 0..MaxOffset, y \in 0..MaxOffset, w \in 1..MaxExtent, h \in 1..MaxExtent,
     nr \in 1..MaxParts, nc \in 1..MaxParts, mx \in {0, 1}, my \in {0, 1}}

RectInit ==
  /\ area \in {a \in Areas : a.sourceX = a.sourceY /\ a.width - a.sourceW = a.height - a.sourceH}
  /\ rectR = 0
  /\ rectC = 0
  /\ srcRects = <<>>
  /\ SliceIdle
  /\ CallsIdle
  /\ AppIdle
  /\ PreviewIdle

\* lines 597-616: one iteration of the inner loop, up to drawImage
ExtractRect ==
  /\ rectR < area.rows
  /\ srcRects' = Append(srcRects, SourceRect(area, rectR, rectC))
  /\ rectC' = IF rectC + 1 < area.cols THEN rectC + 1 ELSE 0
  /\ rectR' = IF rectC + 1 < area.cols THEN rectR ELSE rectR + 1
  /\ UNCHANGED <<area, vars, callVars, appVars, previewVars>>

NextRect == ExtractRect

SpecRect == RectInit /\ [][NextRect]_<<vars, others>>

\* the loop has run to its end
RectsDone == area # NULL /\ rectR = area.rows

RectAt(rr, cc) == CHOOSE q \in {srcRects[k] : k \in 1..Len(srcRects)} : q.r = rr /\ q.c = cc

Abs(n) == IF n < 0 THEN -n ELSE n

\* the offsets and the size of every rectangle are the exact quotients
ExactOffsets ==
  \A k \in 1..Len(srcRects) :
     LET q == srcRects[k]
     IN /\ q.sx * area.cols = (area.sourceX * area.cols + q.c * area.sourceW) * Scale
        /\ q.sy * area.rows = (area.sourceY * area.rows + q.r * area.sourceH) * Scale
        /\ q.sw * area.cols = area.sourceW * Scale
        /\ q.sh * area.rows = area.sourceH * Scale

Overlap(p, q) ==
  /\ p.sx < q.sx + q.sw /\ q.sx < p.sx + p.sw
  /\ p.sy < q.sy + q.sh /\ q.sy < p.sy + p.sh

NonOverlapping ==
  \A j, k \in 1..Len(srcRects) : j < k => ~Overlap(srcRects[j], srcRects[k])

\* the rectangles leave no gap and end on the borders of the grid area
CoversGridArea ==
  \A k \in 1..Len(srcRects) :
     LET q == srcRects[k]
     IN /\ q.c = 0 => q.sx = area.sourceX * Scale
        /\ q.r = 0 => q.sy = area.sourceY * Scale
        /\ q.c > 0 => q.sx = RectAt(q.r, q.c - 1).sx + RectAt(q.r, q.c - 1).sw
        /\ q.r > 0 => q.sy = RectAt(q.r - 1, q.c).sy + RectAt(q.r - 1, q.c).sh
        /\ q.c = area.cols - 1 => q.sx + q.sw = (area.sourceX + area.sourceW) * Scale
        /\ q.r = area.rows - 1 => q.sy + q.sh = (area.sourceY + area.sourceH) * Scale

InsideRaster ==
  \A k \in 1..Len(srcRects) :
     LET q == srcRects[k]
     IN /\ q.sx >= 0 /\ q.sx + q.sw <= area.width * Scale
        /\ q.sy >= 0 /\ q.sy + q.sh <= area.height * Scale

\* every edge is within 4 * 2^-SigBits * (gridX + gridW), resp.
\* (gridY + gridH), of its exact position
WithinRounding ==
  \A k \in 1..Len(srcRects) :
     LET q == srcRects[k]
         tolX == 4 * (area.sourceX + area.sourceW) * Scale * area.cols
         tolY == 4 * (area.sourceY + area.sourceH) * Scale * area.rows
         left == (area.sourceX * area.cols + q.c * area.sourceW) * Scale
         right == (area.sourceX * area.cols + (q.c + 1) * area.sourceW) * Scale
         top == (area.sourceY * area.rows + q.r * area.sourceH) * Scale
         bottom == (area.sourceY * area.rows + (q.r + 1) * area.sourceH) * Scale
     IN /\ Abs(q.sx * area.cols - left) * (2 ^ SigBits) <= tolX
        /\ Abs((q.sx + q.sw) * area.cols - right) * (2 ^ SigBits) <= tolX
        /\ Abs(q.sy * area.rows - top) * (2 ^ SigBits) <= tolY
        /\ Abs((q.sy + q.sh) * area.rows - bottom) * (2 ^ SigBits) <= tolY

\* gridW / cols and gridH / rows are floating-point numbers
QuotientsExact ==
  /\ FDiv(area.sourceW, area.cols) * area.cols = area.sourceW * Scale
  /\ FDiv(area.sourceH, area.rows) * area.rows = area.sourceH * Scale

\* C14 as stated: the rectangles are at the exact offsets with the exact
\* size, do not overlap, cover exactly the grid area and lie inside the
\* source raster.
C14_Original ==
  area # NULL =>
     /\ ExactOffsets
     /\ NonOverlapping
     /\ CoversGridArea
     /\ InsideRaster

\* C14 (amended): the offsets (gridX + c * fw, gridY + r * fh) and the size
\* (fw, fh) are floating-point numbers, fw and fh being gridW / cols and
\* gridH / rows rounded.  When both quotients are floating-point numbers the
\* rectangles are exact, do not overlap, cover exactly the grid area and lie
\* inside the source raster; otherwise every edge is within rounding error of
\* its exact position.  In every case the first column starts at gridX, the
\* first row at gridY, and all rectangles have the same size.
C14_SourceRects ==
  area # NULL =>
     /\ QuotientsExact =>
          (ExactOffsets /\ NonOverlapping /\ CoversGridArea /\ InsideRaster)
     /\ (area.sourceW % area.cols = 0 /\ area.sourceH % area.rows = 0) => QuotientsExact
     /\ (area.cols \in {1, 2, 4} /\ area.rows \in {1, 2, 4}) => QuotientsExact
     /\ WithinRounding
     /\ \A k \in 1..Len(srcRects) :
           LET q == srcRects[k]
           IN /\ q.c = 0 => q.sx = area.sourceX * Scale
              /\ q.r = 0 => q.sy = area.sourceY * Scale
              /\ q.sw = srcRects[1].sw /\ q.sh = srcRects[1].sh
              /\ q.sx >= 0 /\ q.sy >= 0

\* three columns over a width 3 does not divide: the last column ends beyond
\* the grid area, which reaches the border of the raster
C14_Witness ==
  /\ RectsDone
  /\ area.cols = 3 /\ area.sourceW % 3 # 0
  /\ area.width = area.sourceX + area.sourceW
  /\ \E k \in 1..Len(srcRects) :
        /\ srcRects[k].c = 2
        /\ srcRects[k].sx + srcRects[k].sw > area.width * Scale

\* an even division: the rectangles tile the grid area exactly
C14_WitnessExact ==
  /\ RectsDone
  /\ area.cols = 3 /\ area.rows = 2 /\ area.sourceW = 6 /\ area.sourceH = 5
  /\ ExactOffsets /\ CoversGridArea /\ NonOverlapping

\* neighbouring rectangles that overlap, and neighbouring rectangles with a gap
C14_WitnessOverlap ==
  /\ \E j, k \in 1..Len(srcRects) : j < k /\ Overlap(srcRects[j], srcRects[k])
  /\ \E k \in 1..Len(srcRects) :
        /\ srcRects[k].c > 0
        /\ srcRects[k].sx > RectAt(srcRects[k].r, srcRects[k].c - 1).sx
                              + RectAt(srcRects[k].r, srcRects[k].c - 1).sw

\* -------------------------------------------------- properties of the grid area
WholeRaster ==
  /\ grid.sourceX = 0 /\ grid.sourceY = 0
  /\ grid.sourceW = canvas.width /\ grid.sourceH = canvas.height

ContentBox ==
  /\ grid.sourceX = SetMin(ForegroundXs(canvas))
  /\ grid.sourceY = SetMin(ForegroundYs(canvas))
  /\ grid.sourceX + grid.sourceW - 1 = SetMax(ForegroundXs(canvas))
  /\ grid.sourceY + grid.sourceH - 1 = SetMax(ForegroundYs(canvas))

GridAreaChosen ==
  grid # NULL =>
     IF Foreground(canvas) = {} THEN globalBounds = NULL /\ WholeRaster
     ELSE globalBounds # NULL /\ ContentBox

AllCellsBlank ==
  \A k \in 1..Len(rawCanvases) : Foreground(rawCanvases[k]) = {}

CellCtxFailures == Cardinality({k \in 0..(rows * cols - 1) : <<"cell", k>> \in nullCtx})

\* C15 as stated: without content in the source raster the grid area is the
\* whole raster and rows * cols blank cells are sliced; with content the grid
\* area is the content bounding box.
C15_Original ==
  /\ GridAreaChosen
  /\ promise.rejects = 0
  /\ (Sliced /\ globalBounds = NULL) =>
        (Len(rawCanvases) = rows * cols /\ AllCellsBlank)

\* C15 (amended): without content in the source raster the grid area is the
\* whole raster and the loop still runs over the rows * cols grid positions,
\* slicing a blank cell at every position whose canvas has a 2D context
\* (rows * cols cells when all have); the call is never rejected.  With
\* content the grid area is the content bounding box.
C15_GridFallback ==
  /\ GridAreaChosen
  /\ promise.rejects = 0
  /\ (Sliced /\ globalBounds = NULL) =>
        /\ Len(rawCanvases) = rows * cols - CellCtxFailures
        /\ ~CellCtxFailed => Len(rawCanvases) = rows * cols
        /\ AllCellsBlank
        /\ \A k \in 1..Len(rawCanvases) :
              /\ rawCanvases[k].width = Ceil(canvas.width, cols)
              /\ rawCanvases[k].height = Ceil(canvas.height, rows)

\* an all-white sheet sliced into 2 x 2 blank cells of the whole raster
C15_Witness ==
  /\ pc = "done" /\ nullCtx = {}
  /\ rows = 2 /\ cols = 2
  /\ img.decodes /\ AllPixels(canvas, White)
  /\ globalBounds = NULL /\ WholeRaster
  /\ Len(rawCanvases) = 4 /\ AllCellsBlank
  /\ promise.state = "fulfilled"

\* a sheet with content: the grid area is smaller than the raster
C15_WitnessContent ==
  /\ Sliced /\ globalBounds # NULL
  /\ grid.sourceX > 0 /\ grid.sourceW < canvas.width - 2

\* ------------------------------------------------ who writes to which raster
\* The source canvas holds what onload drew into it.
SourceUnchanged ==
  (canvas # NULL /\ ~SourceCtxFailed) =>
     /\ canvas.width = img.width /\ canvas.height = img.height
     /\ canvas.data = img.data

\* Every entry of rawCanvases is the one canvas created for its grid
\* position: the canvas the partitioner drew into.  It still holds the
\* pixels drawImage gave it.
CellsAsDrawn ==
  \A k \in 1..Len(rawCanvases) :
     rawCanvases[k] =
        DrawCell(sampler, canvas, grid, rows, cols, cellPos[k][1], cellPos[k][2])

\* It holds the pixels the sanitizer left in it.
CellsAsSanitized ==
  \A k \in 1..Len(rawCanvases) :
     rawCanvases[k] =
        SanitizeCell(DrawCell(sampler, canvas, grid, rows, cols,
                              cellPos[k][1], cellPos[k][2]), removeBg)

alignAndMaximizeFrames(frames, smp) ==
  LET bs == [k \in 1..Len(frames) |-> getContentBounds(frames[k])]
      maxContentW == MaxContent(bs, 1, "w")
      maxContentH == MaxContent(bs, 1, "h")
  IN IF NothingFound(maxContentW, maxContentH) THEN <<>>
     ELSE [k \in 1..Len(frames) |->
             FramePush(TRUE, smp, frames[k], bs[k],
                       maxContentW + padding * 2, maxContentH + padding * 2)[1]]

\* lines 569-647 with every context obtained: performFixedGridSlicing
performFixedGridSlicing(cnv, nrows, ncols, removeBackground, smp) ==
  LET area0 == GridArea(cnv, getContentBounds(cnv))
      cells == [k \in 1..(nrows * ncols) |->
                  SanitizeCell(DrawCell(smp, cnv, area0, nrows, ncols,
                                        (k - 1) \div ncols, (k - 1) % ncols),
                               removeBackground)]
  IN alignAndMaximizeFrames(cells, smp)

\* lines 661-676: what img.onload passes to resolve; ctx tells whether the
\* source canvas got its context
OnloadResult(image, nrows, ncols, removeBackground, smp, ctx) ==
  IF ~ctx THEN <<>>
  ELSE performFixedGridSlicing(
         [width |-> image.width, height |-> image.height, data |-> image.data],
         nrows, ncols, removeBackground, smp)

\* the arguments of a call and the platform it runs on
CallInputs ==
  {[img |-> m, rows |-> 1, cols |-> 2, removeBg |-> b, sampler |-> "lo", ctx |-> x] :
     m \in {Broken,
            Sheet(1, 2, Pitch, Pitch, White, "box", "bar", 1),
            Sheet(1, 2, Pitch, Pitch, Transparent, "full", "blank", 1)},
     b \in BOOLEAN, x \in BOOLEAN}
  \cup
  {[img |-> m, rows |-> 2, cols |-> 1, removeBg |-> TRUE, sampler |-> "hi", ctx |-> TRUE] :
     m \in {Sheet(2, 1, Pitch, Pitch, White, "box", "full", 1),
            Sheet(2, 1, Pitch, Pitch, White, "blank", "blank", 1)}}

CallIds == {1, 2}

\* two calls with different arguments, neither yet made
TwoInit ==
  /\ calls \in {cs \in [CallIds -> [in : CallInputs, pc : {"idle"},
                                     promise : {[state |-> "pending", value |-> <<>>,
                                                 resolves |-> 0, rejects |-> 0]}]] :
                  cs[1].in # cs[2].in}
  /\ log = <<>>
  /\ SliceIdle
  /\ RectIdle
  /\ AppIdle
  /\ PreviewIdle

\* faulty variant: img is a variable of the module: a callback sees the
\* Image of the call made last
ClosureImgShared(cs, lg, id) ==
  LET made == {k \in 1..Len(lg) : lg[k][1] = "call"}
      last == CHOOSE k \in made : \A j \in made : j <= k
  IN cs[lg[last][2]].in.img

\* line 659: img is a constant of the executor: the callbacks of a call see
\* the Image of that call
ClosureImg(cs, lg, id) == cs[id].in.img

\* lines 652-679: sliceSpriteSheet is called: the promise, the Image and its
\* two callbacks are created and the decoding starts
SliceCall(id) ==
  /\ calls[id].pc = "idle"
  /\ calls' = [calls EXCEPT ![id].pc = "decoding"]
  /\ log' = Append(log, <<"call", id>>)
  /\ UNCHANGED <<vars, rectVars, appVars, previewVars>>

\* lines 661-676: img.onload of call id, run to its end
CallOnload(id) ==
  /\ calls[id].pc = "decoding"
  /\ ClosureImg(calls, log, id).decodes
  /\ calls' = [calls EXCEPT
       ![id].pc = "settled",
       ![id].promise = Resolve(@, OnloadResult(ClosureImg(calls, log, id),
                                   calls[id].in.rows, calls[id].in.cols,
                                   calls[id].in.removeBg, calls[id].in.sampler,
                                   calls[id].in.ctx))]
  /\ log' = Append(log, <<"onload", id>>)
  /\ UNCHANGED <<vars, rectVars, appVars, previewVars>>

\* line 677: img.onerror of call id
CallOnerror(id) ==
  /\ calls[id].pc = "decoding"
  /\ ~ClosureImg(calls, log, id).decodes
  /\ calls' = [calls EXCEPT ![id].pc = "settled",
                            ![id].promise = Resolve(@, <<>>)]
  /\ log' = Append(log, <<"onerror", id>>)
  /\ UNCHANGED <<vars, rectVars, appVars, previewVars>>

NextTwo == \E id \in CallIds : SliceCall(id) \/ CallOnload(id) \/ CallOnerror(id)

SpecTwo == TwoInit /\ [][NextTwo]_<<vars, others>>

\* what a call with these arguments resolves to when it is the only call
Alone(in) ==
  IF in.img.decodes
    THEN OnloadResult(in.img, in.rows, in.cols, in.removeBg, in.sampler, in.ctx)
    ELSE <<>>

Versions == {"analysing", "direct"}
AppImages == {"A", "B"}
FrameCounts == {4, 6, 8, 9}
FpsChoices == {6, 12}
\* what the user types or picks as action prompt
Prompts == {"", "run"}

\* part_001 line 26: the prompt filled in for the user
DefaultPrompt == "idle action"
\* part_001 lines 32 and 36
NoImageMsg == "please upload an image first"
NoPromptMsg == "please enter an action description"
\* App.tsx line 35
AnalysisFailedMsg == "cannot analyse the image"
\* App.tsx line 72, part_001 line 65
CannotSliceMsg(ver) ==
  IF ver = "analysing" THEN "the generated image cannot be sliced"
  ELSE "image processing failed"
\* App.tsx line 79, part_001 line 72
GenerationFailedMsg == "generation failed, try another prompt"
\* the messages of the errors generateSpriteSheet throws
ServiceErrors(ver) ==
  IF ver = "analysing"
    THEN {"API Key not found", "Failed to generate animation frames."}
    ELSE {"API Key not found", "no image data returned"}
\* geminiService.ts line 54: the description analyzeCharacterImage returns
Describe(image) == IF image = "A" THEN "description of A" ELSE "description of B"

\* faulty variant: 8 frames laid out as 3 x 3
GridForSquare(n) ==
  CASE n = 6 -> <<2, 3>>
    [] n = 8 -> <<3, 3>>
    [] n = 9 -> <<3, 3>>
    [] OTHER -> <<2, 2>>

\* App.tsx lines 50-56, part_001 lines 44-51
GridFor(n) ==
  CASE n = 6 -> <<2, 3>>
    [] n = 8 -> <<2, 4>>
    [] n = 9 -> <<3, 3>>
    [] OTHER -> <<2, 2>>

\* faulty variant: only the prompt is tested
GenerateGuardPromptOnly(ver, image, prompt) ==
  IF ver = "analysing"
    THEN IF prompt = "" THEN "return" ELSE "start"
    ELSE IF prompt = "" THEN "no prompt" ELSE "start"

\* App.tsx line 43, part_001 lines 31-38: the tests at the head of handleGenerate
GenerateGuard(ver, image, prompt) ==
  IF ver = "analysing"
    THEN IF image = null \/ prompt = "" THEN "return" ELSE "start"
    ELSE IF image = null THEN "no image"
         ELSE IF prompt = "" THEN "no prompt"
         ELSE "start"

\* App.tsx line 240, part_001 line 219: disabled of the generate button
GenerateDisabled(ver, state, prompt) ==
  IF ver = "analysing"
    THEN state = "GENERATING" \/ state = "ANALYZING" \/ prompt = ""
    ELSE state = "GENERATING"

\* App.tsx line 79, part_001 line 72: err.message || the default
ErrorText(message) == IF message = "" THEN GenerationFailedMsg ELSE message

\* the data URLs of the frames of task id
Frames(id, n) == [k \in 1..n |-> <<id, k>>]

\* what sliceSpriteSheet resolves to: no frame, one frame per cell, or fewer
\* frames when a canvas got no context
SliceResults(t) ==
  {<<>>, Frames(t.id, t.rows * t.cols), Frames(t.id, t.rows * t.cols - 1)}

\* faulty variant: the length of the result is not tested
SliceEmptyUnchecked(frames) == FALSE

\* App.tsx line 71, part_001 line 64: !frames || frames.length === 0
SliceEmpty(frames) == Len(frames) = 0

AppInit ==
  /\ version \in Versions
  /\ appState = "IDLE"
  /\ originalImage = null
  /\ characterDescription = ""
  /\ actionPrompt = ""
  /\ generatedFrames = <<>>
  /\ fps = 6
  /\ errorMsg = null
  /\ frameCount = IF version = "analysing" THEN 6 ELSE 4
  /\ tasks = {}
  /\ started = 0
  /\ SliceIdle
  /\ RectIdle
  /\ CallsIdle
  /\ PreviewIdle

notApp == <<vars, rectVars, callVars, previewVars>>

\* part_002 lines 16-29 and 48-63: a file is dropped on or picked in the
\* upload zone, which is shown while no image is selected; fileToBase64
\* starts.  The handler keeps the onImageSelected of this render, which in
\* part_001 reads the actionPrompt of this render.
PickFile(image) ==
  /\ originalImage = null
  /\ started < MaxTasks
  /\ started' = started + 1
  /\ tasks' = tasks \cup {[id |-> started + 1, stage |-> "read", image |-> image,
                           prompt |-> IF version = "direct" THEN actionPrompt ELSE "",
                           description |-> "", rows |-> 0, cols |-> 0]}
  /\ UNCHANGED <<version, appState, originalImage, characterDescription,
                 actionPrompt, generatedFrames, fps, errorMsg, frameCount, notApp>>

\* imageUtils.ts line 446: reader.onerror rejects; nobody handles it
ReadFails(t) ==
  /\ t \in tasks /\ t.stage = "read"
  /\ tasks' = tasks \ {t}
  /\ UNCHANGED <<version, appState, originalImage, characterDescription,
                 actionPrompt, generatedFrames, fps, errorMsg, frameCount,
                 started, notApp>>

\* App.tsx lines 23-29, part_001 lines 21-27: handleImageSelected, called when
\* fileToBase64 resolves, up to its await (analysing) or to its end (direct)
HandleImageSelected(t) ==
  /\ t \in tasks /\ t.stage = "read"
  /\ originalImage' = t.image
  /\ errorMsg' = null
  /\ IF version = "analysing"
       THEN /\ appState' = "ANALYZING"
            /\ characterDescription' = ""
            /\ tasks' = (tasks \ {t}) \cup {[t EXCEPT !.stage = "analyze"]}
            /\ UNCHANGED actionPrompt
       ELSE /\ appState' = "READY_TO_GENERATE"
            /\ actionPrompt' = IF t.prompt = "" THEN DefaultPrompt ELSE actionPrompt
            /\ tasks' = tasks \ {t}
            /\ UNCHANGED characterDescription
  /\ UNCHANGED <<version, generatedFrames, fps, frameCount, started, notApp>>

\* App.tsx lines 30-32: analyzeCharacterImage resolved
AnalyzeResolves(t) ==
  /\ t \in tasks /\ t.stage = "analyze"
  /\ characterDescription' = Describe(t.image)
  /\ appState' = "READY_TO_GENERATE"
  /\ tasks' = tasks \ {t}
  /\ UNCHANGED <<version, originalImage, actionPrompt, generatedFrames, fps,
                 errorMsg, frameCount, started, notApp>>

\* App.tsx lines 33-38: analyzeCharacterImage rejected
AnalyzeRejects(t) ==
  /\ t \in tasks /\ t.stage = "analyze"
  /\ errorMsg' = AnalysisFailedMsg
  /\ appState' = "READY_TO_GENERATE"
  /\ tasks' = tasks \ {t}
  /\ UNCHANGED <<version, originalImage, characterDescription, actionPrompt,
                 generatedFrames, fps, frameCount, started, notApp>>

\* App.tsx lines 133-139, part_001 lines 128-133: onClear of the upload
\* zone, whose button is shown while an image is selected
Clear ==
  /\ originalImage # null
  /\ originalImage' = null
  /\ appState' = "IDLE"
  /\ generatedFrames' = <<>>
  /\ characterDescription' = IF version = "analysing" THEN "" ELSE characterDescription
  /\ errorMsg' = null
  /\ UNCHANGED <<version, actionPrompt, fps, frameCount, tasks, started, notApp>>

\* App.tsx lines 163 and 172: the textarea and the quick prompts
SetActionPrompt(p) ==
  /\ actionPrompt' = p
  /\ UNCHANGED <<version, appState, originalImage, characterDescription,
                 generatedFrames, fps, errorMsg, frameCount, tasks, started, notApp>>

\* App.tsx line 190
SetFrameCount(n) ==
  /\ frameCount' = n
  /\ UNCHANGED <<version, appState, originalImage, characterDescription,
                 actionPrompt, generatedFrames, fps, errorMsg, tasks, started, notApp>>

\* App.tsx line 211
SetFps(f) ==
  /\ fps' = f
  /\ UNCHANGED <<version, appState, originalImage, characterDescription,
                 actionPrompt, generatedFrames, errorMsg, frameCount, tasks,
                 started, notApp>>

\* faulty variant: a new generation does not clear the frames and the error
\* of the previous one
HandleGenerateKeepsFrames ==
  /\ ~GenerateDisabled(version, appState, actionPrompt)
  /\ LET guard == GenerateGuard(version, originalImage, actionPrompt)
     IN IF guard = "start"
          THEN /\ started < MaxTasks
               /\ appState' = "GENERATING"
               /\ UNCHANGED <<errorMsg, generatedFrames>>
               /\ started' = started + 1
               /\ tasks' = tasks \cup
                    {[id |-> started + 1, stage |-> "generate",
                      image |-> originalImage, prompt |-> "",
                      description |-> IF version = "analysing"
                                        THEN characterDescription ELSE "",
                      rows |-> GridFor(frameCount)[1],
                      cols |-> GridFor(frameCount)[2]]}
          ELSE /\ errorMsg' = (CASE guard = "no image" -> NoImageMsg
                                 [] guard = "no prompt" -> NoPromptMsg
                                 [] OTHER -> errorMsg)
               /\ UNCHANGED <<appState, generatedFrames, tasks, started>>
  /\ UNCHANGED <<version, originalImage, characterDescription, actionPrompt,
                 fps, frameCount, notApp>>

\* App.tsx lines 42-65, part_001 lines 30-58: handleGenerate, started by the
\* generate button, up to its first await
HandleGenerate ==
  /\ ~GenerateDisabled(version, appState, actionPrompt)
  /\ LET guard == GenerateGuard(version, originalImage, actionPrompt)
     IN IF guard = "start"
          THEN /\ started < MaxTasks
               /\ appState' = "GENERATING"
               /\ errorMsg' = null
               /\ generatedFrames' = <<>>
               /\ started' = started + 1
               /\ tasks' = tasks \cup
                    {[id |-> started + 1, stage |-> "generate",
                      image |-> originalImage, prompt |-> "",
                      description |-> IF version = "analysing"
                                        THEN characterDescription ELSE "",
                      rows |-> GridFor(frameCount)[1],
                      cols |-> GridFor(frameCount)[2]]}
          ELSE /\ errorMsg' = (CASE guard = "no image" -> NoImageMsg
                                 [] guard = "no prompt" -> NoPromptMsg
                                 [] OTHER -> errorMsg)
               /\ UNCHANGED <<appState, generatedFrames, tasks, started>>
  /\ UNCHANGED <<version, originalImage, characterDescription, actionPrompt,
                 fps, frameCount, notApp>>

\* App.tsx lines 59-69: generateSpriteSheet resolved; sliceSpriteSheet is
\* called with the sheet and the rows and cols of this call
GenerateResolves(t) ==
  /\ t \in tasks /\ t.stage = "generate"
  /\ tasks' = (tasks \ {t}) \cup {[t EXCEPT !.stage = "slice"]}
  /\ UNCHANGED <<version, appState, originalImage, characterDescription,
                 actionPrompt, generatedFrames, fps, errorMsg, frameCount,
                 started, notApp>>

\* faulty variant: the rejection is not caught, the app keeps its state
GenerateRejectsUncaught(t, message) ==
  /\ t \in tasks /\ t.stage = "generate"
  /\ tasks' = tasks \ {t}
  /\ UNCHANGED <<version, appState, originalImage, characterDescription,
                 actionPrompt, generatedFrames, fps, errorMsg, frameCount,
                 started, notApp>>

\* App.tsx lines 77-81: generateSpriteSheet rejected
GenerateRejects(t, message) ==
  /\ t \in tasks /\ t.stage = "generate"
  /\ errorMsg' = ErrorText(message)
  /\ appState' = "ERROR"
  /\ tasks' = tasks \ {t}
  /\ UNCHANGED <<version, originalImage, characterDescription, actionPrompt,
                 generatedFrames, fps, frameCount, started, notApp>>

\* App.tsx lines 69-81: sliceSpriteSheet resolved to frames
SliceResolves(t, frames) ==
  /\ t \in tasks /\ t.stage = "slice"
  /\ IF SliceEmpty(frames)
       THEN /\ errorMsg' = ErrorText(CannotSliceMsg(version))
            /\ appState' = "ERROR"
            /\ UNCHANGED generatedFrames
       ELSE /\ generatedFrames' = frames
            /\ appState' = "COMPLETE"
            /\ UNCHANGED errorMsg
  /\ tasks' = tasks \ {t}
  /\ UNCHANGED <<version, originalImage, characterDescription, actionPrompt,
                 fps, frameCount, started, notApp>>

\* faulty variant: the reset also drops the uploaded image
HandleResetDropsImage ==
  /\ version = "direct"
  /\ appState = "ERROR"
  /\ appState' = "IDLE"
  /\ generatedFrames' = <<>>
  /\ errorMsg' = null
  /\ originalImage' = null
  /\ UNCHANGED <<version, characterDescription, actionPrompt,
                 fps, frameCount, tasks, started, notApp>>

\* part_001 lines 78-83 and 143-147: handleReset, whose button is shown in
\* state ERROR
HandleReset ==
  /\ version = "direct"
  /\ appState = "ERROR"
  /\ appState' = "IDLE"
  /\ generatedFrames' = <<>>
  /\ errorMsg' = null
  /\ UNCHANGED <<version, originalImage, characterDescription, actionPrompt,
                 fps, frameCount, tasks, started, notApp>>

NextApp ==
  \/ \E image \in AppImages : PickFile(image)
  \/ \E t \in tasks : ReadFails(t)
  \/ \E t \in tasks : HandleImageSelected(t)
  \/ \E t \in tasks : AnalyzeResolves(t)
  \/ \E t \in tasks : AnalyzeRejects(t)
  \/ Clear
  \/ \E p \in Prompts : SetActionPrompt(p)
  \/ \E n \in FrameCounts : SetFrameCount(n)
  \/ \E f \in FpsChoices : SetFps(f)
  \/ HandleGenerate
  \/ \E t \in tasks : GenerateResolves(t)
  \/ \E t \in tasks : \E message \in ServiceErrors(version) : GenerateRejects(t, message)
  \/ \E t \in tasks : \E frames \in SliceResults(t) : SliceResolves(t, frames)
  \/ HandleReset

SpecApp == AppInit /\ [][NextApp]_<<vars, others>>

AppTypeOK ==
  /\ appState \in {"IDLE", "ANALYZING", "READY_TO_GENERATE", "GENERATING",
                   "COMPLETE", "ERROR"}
  /\ originalImage \in AppImages \cup {null}
  /\ frameCount \in FrameCounts
  /\ started <= MaxTasks

\* ------------------------------------------------------ properties of the app
\* C18: whenever sliceSpriteSheet resolves to the empty sequence inside
\* handleGenerate, appState becomes ERROR, errorMsg becomes a non-empty
\* message, generatedFrames is not set, and the request is over: it never
\* sets COMPLETE.
C18_EmptySliceIsError ==
  [][\A t \in tasks :
        SliceResolves(t, <<>>) =>
           /\ appState' = "ERROR"
           /\ errorMsg' # null /\ errorMsg' # ""
           /\ generatedFrames' = generatedFrames
           /\ \A u \in tasks' : u.id # t.id]_appVars

\* the app after an empty slice result, in the analysing version after the
\* image was removed meanwhile
C18_Witness ==
  /\ appState = "ERROR"
  /\ errorMsg = CannotSliceMsg(version)
  /\ version = "analysing"
  /\ originalImage = null
  /\ generatedFrames = <<>>
  /\ tasks = {}

C18_WitnessDirect ==
  /\ appState = "ERROR"
  /\ errorMsg = CannotSliceMsg(version)
  /\ version = "direct"
  /\ originalImage # null

\* C19: in the analysing version a selected image puts the app in ANALYZING,
\* and when analyzeCharacterImage settles the app is in READY_TO_GENERATE:
\* after a success with the description stored and no error, after a failure
\* with errorMsg set and the description empty; a failure never leaves the
\* app in ANALYZING or ERROR.
C19_Original ==
  [][\A t \in tasks :
        /\ (version = "analysing" /\ HandleImageSelected(t)) =>
              appState' = "ANALYZING"
        /\ AnalyzeResolves(t) =>
              /\ appState' = "READY_TO_GENERATE"
              /\ characterDescription' = Describe(t.image)
              /\ errorMsg' = null
        /\ AnalyzeRejects(t) =>
              /\ appState' = "READY_TO_GENERATE"
              /\ errorMsg' # null
              /\ characterDescription' = ""]_appVars

\* every settled analysis does put the app in READY_TO_GENERATE
C19_SettlesToReady ==
  [][\A t \in tasks :
        (AnalyzeResolves(t) \/ AnalyzeRejects(t)) =>
           appState' = "READY_TO_GENERATE"]_appVars

\* the analysis of image B failed and the app shows B with the description
\* of image A, whose analysis settled after A had been removed
C19_StaleDescription ==
  /\ version = "analysing"
  /\ appState = "READY_TO_GENERATE"
  /\ originalImage = "B"
  /\ characterDescription = Describe("A")
  /\ errorMsg = AnalysisFailedMsg
  /\ tasks = {}

\* C20: handleGenerate called with no uploaded image or with an empty action
\* prompt starts no generation request and leaves appState and
\* generatedFrames unchanged; the version of part_001 sets errorMsg to the
\* prompt for the missing input, the version of App.tsx changes nothing.
C20_GuardedGenerate ==
  [][/\ \A image \in AppImages \cup {null} : \A prompt \in Prompts :
           (image = null \/ prompt = "") =>
              /\ GenerateGuard("analysing", image, prompt) = "return"
              /\ GenerateGuard("direct", image, prompt) =
                   (IF image = null THEN "no image" ELSE "no prompt")
     /\ (HandleGenerate /\ (originalImage = null \/ actionPrompt = "")) =>
           /\ tasks' = tasks /\ started' = started
           /\ appState' = appState
           /\ generatedFrames' = generatedFrames
           /\ version = "direct" =>
                errorMsg' = (IF originalImage = null THEN NoImageMsg
                                                     ELSE NoPromptMsg)
           /\ version = "analysing" => UNCHANGED appVars]_appVars

\* the direct version after a generate without an image
C20_Witness ==
  /\ version = "direct"
  /\ originalImage = null
  /\ errorMsg = NoImageMsg
  /\ appState = "IDLE"
  /\ tasks = {}

\* the direct version after a generate with an image and an empty prompt
C20_WitnessNoPrompt ==
  /\ version = "direct"
  /\ originalImage # null
  /\ actionPrompt = ""
  /\ errorMsg = NoPromptMsg
  /\ appState = "READY_TO_GENERATE"

\* C21: handleReset sets appState to IDLE, clears generatedFrames and
\* errorMsg, and leaves originalImage, actionPrompt, frameCount and fps
\* unchanged, so the generate button is enabled and handleGenerate passes its
\* tests exactly when it did before, without a new upload.
C21_ResetKeepsInputs ==
  [][HandleReset =>
        /\ appState' = "IDLE"
        /\ generatedFrames' = <<>>
        /\ errorMsg' = null
        /\ UNCHANGED <<originalImage, actionPrompt, frameCount, fps>>
        /\ ~GenerateDisabled(version', appState', actionPrompt')
        /\ GenerateGuard(version', originalImage', actionPrompt') =
             GenerateGuard(version, originalImage, actionPrompt)]_appVars

\* the app after a reset: IDLE with the image still uploaded and a prompt
C21_Witness ==
  /\ version = "direct"
  /\ appState = "IDLE"
  /\ originalImage # null
  /\ actionPrompt # ""
  /\ errorMsg = null
  /\ generatedFrames = <<>>

\* the generation requests in flight: generateSpriteSheet or sliceSpriteSheet
\* of a handleGenerate call has not settled
InFlight == {t \in tasks : t.stage \in {"generate", "slice"}}

\* C22: at most one generation request is in flight at any time; while a
\* request started by handleGenerate is unsettled, no user action starts a
\* second one.
C22_Original == Cardinality(InFlight) <= 1

\* the same, as a step: handleGenerate starts no request while one is in
\* flight
C22_OriginalStep ==
  [][(HandleGenerate /\ InFlight # {}) => tasks' = tasks]_appVars

\* two requests in flight: the first was started for image A, which was then
\* removed, the second for image B
C22_TwoInFlight ==
  /\ \E t \in InFlight : \E u \in InFlight :
        t.id < u.id /\ t.image = "A" /\ u.image = "B"
  /\ appState = "GENERATING"
  /\ originalImage = "B"

\* C23: after onClear or handleReset, generatedFrames stays empty and
\* appState does not become COMPLETE or ERROR until a new generation is
\* started; the result of a generation in flight at the clear is never
\* applied. appState is IDLE exactly from a clear or a reset (or the start)
\* until the next handler changes it, and handleGenerate leaves IDLE for
\* GENERATING, so every request in flight in IDLE was started before the
\* clear: no step from IDLE may apply a result.
C23_Original ==
  [][appState = "IDLE" =>
        /\ appState' \notin {"COMPLETE", "ERROR"}
        /\ generatedFrames' = <<>>]_appVars

\* the last part of C23 as a state predicate: the frames shown belong to the
\* most recently started request, so no younger request is in flight
C23_LatestFrames ==
  generatedFrames # <<>> =>
     \A t \in InFlight : t.id < generatedFrames[1][1]

\* the frames of a request are shown although the image was removed while
\* the request was in flight and nothing was started since
C23_StaleFrames ==
  /\ appState = "COMPLETE"
  /\ generatedFrames # <<>>
  /\ originalImage = null
  /\ InFlight = {}
  /\ started = 2

\* ------------------------------------------------- the AnimationPreview model
\* The component stays mounted under App (App.tsx lines 281-285), so its
\* state survives every change of its props.

\* what App passes as frames: nothing, or the frames of one request, one per
\* cell or one fewer
PreviewFrameSets ==
  {<<>>} \cup {Frames(id, n) : id \in 1..MaxTasks, n \in FrameCounts}
         \cup {Frames(id, n - 1) : id \in 1..MaxTasks, n \in FrameCounts}

\* AnimationPreview.tsx lines 17-31: the effect on [frames, fps, isPlaying]
\* clears the interval and sets a new one unless there is nothing to play
TimerAfterEffect(fr, playing) ==
  IF Len(fr) = 0 \/ ~playing THEN 0 ELSE Len(fr)

\* AnimationPreview.tsx lines 55, 70, 83: the frame, the play button and the
\* reset button are rendered when not loading and frames is not empty
Displayed == ~isLoading /\ Len(previewFrames) > 0

PreviewInit ==
  /\ PreviewIdle
  /\ SliceIdle
  /\ RectIdle
  /\ CallsIdle
  /\ AppIdle

notPreview == <<vars, rectVars, callVars, appVars>>

\* App renders the component with new props; the effect runs after it
PropsChange(fr, f, loading) ==
  /\ <<fr, f, loading>> # <<previewFrames, previewFps, isLoading>>
  /\ previewFrames' = fr
  /\ previewFps' = f
  /\ isLoading' = loading
  /\ timerFrames' = TimerAfterEffect(fr, isPlaying)
  /\ UNCHANGED <<currentFrameIndex, isPlaying, notPreview>>

\* AnimationPreview.tsx lines 24-26: the interval fires
Tick ==
  /\ timerFrames # 0
  /\ currentFrameIndex' = (currentFrameIndex + 1) % timerFrames
  /\ UNCHANGED <<previewFrames, previewFps, isLoading, isPlaying, timerFrames,
                 notPreview>>

\* AnimationPreview.tsx line 107: the play/pause button
TogglePlay ==
  /\ Displayed
  /\ isPlaying' = ~isPlaying
  /\ timerFrames' = TimerAfterEffect(previewFrames, ~isPlaying)
  /\ UNCHANGED <<previewFrames, previewFps, isLoading, currentFrameIndex,
                 notPreview>>

\* AnimationPreview.tsx lines 130-132: the reset button
ResetIndex ==
  /\ Displayed
  /\ currentFrameIndex' = 0
  /\ UNCHANGED <<previewFrames, previewFps, isLoading, isPlaying, timerFrames,
                 notPreview>>

NextPreview ==
  \/ \E fr \in PreviewFrameSets : \E f \in FpsChoices : \E loading \in BOOLEAN :
        PropsChange(fr, f, loading)
  \/ Tick
  \/ TogglePlay
  \/ ResetIndex

SpecPreview == PreviewInit /\ [][NextPreview]_<<vars, others>>

\* C24: whenever a frame is displayed (frames not empty, not loading),
\* currentFrameIndex is in 0..frames.length - 1, after any sequence of timer
\* ticks, play/pause toggles, index resets and replacements of frames by a
\* sequence of another length.
C24_Original ==
  Displayed => currentFrameIndex \in 0..(Len(previewFrames) - 1)

\* the index is in range again after the next tick, and always while the
\* frames keep their length
C24_TickInRange ==
  [][Tick => currentFrameIndex' \in 0..(Len(previewFrames') - 1)]_previewVars

\* paused on the last of 9 frames, then the frames were replaced by 4: the
\* img shows frames[8], which does not exist, and no interval is set
C24_IndexOutOfRange ==
  /\ Displayed
  /\ Len(previewFrames) = 4
  /\ currentFrameIndex = 8
  /\ ~isPlaying
  /\ timerFrames = 0

\* ------------------------------------------------------- generations do end
\* the service call of request id settles (handleGenerate continues after
\* its first await, or its catch runs)
ServiceSettles(id) ==
  \E t \in tasks :
     /\ t.id = id
     /\ \/ GenerateResolves(t)
        \/ \E message \in ServiceErrors(version) : GenerateRejects(t, message)

\* the image of sliceSpriteSheet of request id fires onload or onerror, which
\* resolve the promise
ImageLoadFires(id) ==
  \E t \in tasks :
     t.id = id /\ \E frames \in SliceResults(t) : SliceResolves(t, frames)

\* the app under the proviso that every service call settles and every
\* image load fires
\* the steps of the app that bear on a generation: every handler except the
\* frame count select and the fps slider, which stay at their defaults
NextAppFair ==
  \/ \E image \in AppImages : PickFile(image)
  \/ \E t \in tasks : ReadFails(t)
  \/ \E t \in tasks : HandleImageSelected(t)
  \/ \E t \in tasks : AnalyzeResolves(t)
  \/ \E t \in tasks : AnalyzeRejects(t)
  \/ Clear
  \/ \E p \in Prompts : SetActionPrompt(p)
  \/ HandleGenerate
  \/ \E id \in 1..MaxTasks : ServiceSettles(id)
  \/ \E id \in 1..MaxTasks : ImageLoadFires(id)
  \/ HandleReset

SpecAppFair ==
  /\ AppInit
  /\ [][NextAppFair]_<<vars, others>>
  /\ \A id \in 1..MaxTasks :
        WF_appVars(ServiceSettles(id)) /\ WF_appVars(ImageLoadFires(id))

Pending(id) == \E t \in InFlight : t.id = id

\* C25: every generation started by handleGenerate eventually leaves
\* GENERATING and ends in COMPLETE or ERROR, when the service call settles
\* and the image load fires; a rejected service call ends in ERROR with a
\* non-empty errorMsg.
C25_GenerationEnds ==
  /\ (appState = "GENERATING") ~> (appState \in {"COMPLETE", "ERROR"})
  /\ \A id \in 1..MaxTasks : Pending(id) ~> ~Pending(id)
  /\ [][\A t \in tasks :
          /\ (\E frames \in SliceResults(t) : SliceResolves(t, frames)) =>
                appState' \in {"COMPLETE", "ERROR"}
          /\ (\E message \in ServiceErrors(version) : GenerateRejects(t, message)) =>
                /\ appState' = "ERROR"
                /\ errorMsg' # null /\ errorMsg' # ""
                /\ ~(\E u \in tasks' : u.id = t.id)]_appVars

\* a generation has ended in COMPLETE with its frames shown and nothing
\* left in flight
C25_Witness ==
  /\ appState = "COMPLETE"
  /\ generatedFrames # <<>>
  /\ originalImage # null
  /\ InFlight = {}

\* a generation has ended in ERROR after the service call was rejected
C25_WitnessRejected ==
  /\ appState = "ERROR"
  /\ errorMsg \in ServiceErrors(version)
  /\ InFlight = {}

\* C26: in every reachable state of the app, appState = COMPLETE implies
\* generatedFrames is not empty and errorMsg is null, and appState =
\* GENERATING implies generatedFrames is empty and errorMsg is null.
C26_Original ==
  /\ appState = "COMPLETE" => (generatedFrames # <<>> /\ errorMsg = null)
  /\ appState = "GENERATING" => (generatedFrames = <<>> /\ errorMsg = null)

\* C26 as the code has it: COMPLETE implies frames to show, GENERATING
\* implies no frames and no error; errorMsg can be set in COMPLETE.
C26_StateInvariants ==
  /\ appState = "COMPLETE" => generatedFrames # <<>>
  /\ appState = "GENERATING" => (generatedFrames = <<>> /\ errorMsg = null)

\* COMPLETE with an error shown: after a finished generation the prompt was
\* emptied and generate pressed, with no request ever in flight beside it
C26_Witness ==
  /\ version = "direct"
  /\ appState = "COMPLETE"
  /\ generatedFrames # <<>>
  /\ errorMsg = NoPromptMsg
  /\ started = 2
  /\ tasks = {}

\* GENERATING with no frames and no error while an older request is still
\* in flight
C26_WitnessGenerating ==
  /\ appState = "GENERATING"
  /\ generatedFrames = <<>> /\ errorMsg = null
  /\ Cardinality(InFlight) = 2

\* the rows and cols handleGenerate has passed to the services of request t
GridPassed(t) == <<t.rows, t.cols>>

\* C27: for every frame count the user can select (4, 6, 8, 9) the rows and
\* cols computed in handleGenerate satisfy rows * cols = frameCount (4 is
\* 2 x 2, 6 is 2 x 3, 8 is 2 x 4, 9 is 3 x 3), and the same rows and cols
\* go to generateSpriteSheet and to sliceSpriteSheet.
C27_GridMatchesFrameCount ==
  [][/\ GridFor(4) = <<2, 2>> /\ GridFor(6) = <<2, 3>>
     /\ GridFor(8) = <<2, 4>> /\ GridFor(9) = <<3, 3>>
     /\ \A n \in FrameCounts : GridFor(n)[1] * GridFor(n)[2] = n
     /\ HandleGenerate =>
           \A t \in tasks' \ tasks :
              /\ t.stage = "generate"
              /\ frameCount \in FrameCounts
              /\ GridPassed(t) = GridFor(frameCount)
              /\ t.rows * t.cols = frameCount
     /\ \A t \in tasks :
           GenerateResolves(t) =>
              \E u \in tasks' :
                 /\ u.id = t.id /\ u.stage = "slice"
                 /\ GridPassed(u) = GridPassed(t)]_appVars

\* a request for 9 frames has reached sliceSpriteSheet with 3 rows and 3
\* cols after the frame count was changed to 4 meanwhile
C27_Witness ==
  /\ frameCount = 4
  /\ \E t \in tasks : t.stage = "slice" /\ GridPassed(t) = <<3, 3>>

\* frames of an 8-frame request are shown
C27_WitnessFrames ==
  /\ appState = "COMPLETE"
  /\ Len(generatedFrames) = 8

====
